---- MODULE Spec2Model ----
(***************************************************************************)
(* CRF feature factories of snips_nlu/slot_filler/feature_factory.py.      *)
(*                                                                         *)
(* The state is one caller-owned configuration mapping and the factory     *)
(* instance built from it.  The factory keeps a REFERENCE to the mapping   *)
(* (self.factory_config = factory_config), so `config` is at once the      *)
(* caller's mapping and the factory's view of it (self.args is             *)
(* config.args).  Python's None is the string None.                        *)
(***************************************************************************)
EXTENDS Integers, Sequences, FiniteSets, TLC

VARIABLES
    config,   \* the caller's configuration mapping, shared with the factory
    factory,  \* the attributes of the factory instance
    pre,      \* history: config and factory as they were before the last call
    last,     \* history: the last call and what it returned or raised
    fitted,   \* history: fit has been called on the factory
    input,    \* the token sequence (and parser answer) features are evaluated on
    second    \* a second factory constructed from the same configuration mapping

vars == <<config, factory, pre, last, fitted, input, second>>

(* ------------------------------ bounds --------------------------------- *)

\* n of the n-gram kinds ranges over -1 .. MaxN
MaxN == 2

\* token sequences have at most MaxTokens tokens
MaxTokens == 2

\* a parser answers with at most MaxEntities entity spans
MaxEntities == 2

(* ------------------------------ values --------------------------------- *)

None == "None"

NoFactory == [cls |-> "none"]

NoConfig == [factory_name |-> "none"]

Languages == {"en", "fr"}

\* dict.get(key) : the value, or None when the key is absent
Get(d, k) == IF k \in DOMAIN d THEN d[k] ELSE None

\* d[key] = value on a dict
SetKey(d, k, v) == [x \in (DOMAIN d) \cup {k} |-> IF x = k THEN v ELSE d[x]]

\* CRFFeatureFactory.args
Args(cfg) == cfg.args

\* CRFFeatureFactory.offsets
Offsets(cfg) == cfg.offsets

\* CRFFeatureFactory.drop_out : factory_config.get("drop_out", 0.0), in hundredths
DropOut(cfg) == IF "drop_out" \in DOMAIN cfg THEN cfg.drop_out ELSE 0

(* ----------------------- external collaborators ------------------------ *)

\* resources.get_gazetteer(language, name) : the loaded gazetteer of that
\* language and name, identified by both
GetGazetteer(language, name) == language \o "/" \o name

\* `value in gazetteer` : the common words of each loaded gazetteer
InGazetteer(value, gazetteer) ==
    IF gazetteer = "en/top_10000_words" THEN value \in {"paris", "in"}
    ELSE value \in {"paris", "dans"}

\* resources.get_word_clusters(language)[cluster_name] : the loaded table
GetWordClusters(language, cluster_name) == language \o "/" \o cluster_name

\* snips_nlu_ontology.get_supported_grammar_entities(language), as a list
GetSupportedGrammarEntities(language) ==
    IF language = "en" THEN <<"snips/number">>
    ELSE IF language = "fr" THEN <<"snips/number", "snips/date">>
    ELSE <<>>

\* dataset.get_dataset_gazetteer_entities(dataset, intent), as a list
GetDatasetGazetteerEntities(dataset, intent) == dataset.gazetteer_entities[intent]

\* crf_utils.TaggingScheme(code)
TaggingScheme(code) ==
    IF code = 0 THEN "IO" ELSE IF code = 1 THEN "BIO" ELSE "BILOU"

(* --------------------------- the factories ----------------------------- *)

\* FACTORIES, by their `name` attribute, in the order of the list
FACTORIES ==
    << "is_digit", "is_first", "is_last", "prefix", "suffix", "length",
       "ngram", "shape_ngram", "word_cluster", "entity_match",
       "builtin_entity_match" >>

FactoryNames == {FACTORIES[i] : i \in DOMAIN FACTORIES}

LanguageDependent ==
    {"ngram", "shape_ngram", "word_cluster", "entity_match", "builtin_entity_match"}

\* NgramFactory.language setter that resolves the gazetteer only once
NgramSetLanguageLazyGazetteer(f, args, value) ==
    IF value # None
    THEN LET f1 == [f EXCEPT !.language = value]
             a1 == SetKey(args, "language_code", f1.language)
         IN  IF f1.common_words_gazetteer_name # None /\ f1.gazetteer = None
             THEN [f |-> [f1 EXCEPT !.gazetteer =
                              GetGazetteer(f1.language, f1.common_words_gazetteer_name)],
                   args |-> a1]
             ELSE [f |-> f1, args |-> a1]
    ELSE [f |-> f, args |-> args]

\* NgramFactory.language setter
NgramSetLanguage(f, args, value) ==
    IF value # None
    THEN LET f1 == [f EXCEPT !.language = value]
             a1 == SetKey(args, "language_code", f1.language)
         IN  IF f1.common_words_gazetteer_name # None
             THEN [f |-> [f1 EXCEPT !.gazetteer =
                              GetGazetteer(f1.language, f1.common_words_gazetteer_name)],
                   args |-> a1]
             ELSE [f |-> f1, args |-> a1]
    ELSE [f |-> f, args |-> args]

\* ShapeNgramFactory.language setter without the test for None
ShapeNgramSetLanguageUnguarded(f, args, value) ==
    [f |-> [f EXCEPT !.language = value],
     args |-> SetKey(args, "language_code", value)]

\* ShapeNgramFactory.language setter
ShapeNgramSetLanguage(f, args, value) ==
    IF value # None
    THEN [f |-> [f EXCEPT !.language = value],
          args |-> SetKey(args, "language_code", value)]
    ELSE [f |-> f, args |-> args]

\* WordClusterFactory.language setter
WordClusterSetLanguage(f, args, value) ==
    IF value # None
    THEN LET f1 == [f EXCEPT !.language = value]
             f2 == [f1 EXCEPT !.cluster = GetWordClusters(f1.language, f1.cluster_name)]
         IN  [f |-> f2, args |-> SetKey(args, "language_code", f2.language)]
    ELSE [f |-> f, args |-> args]

\* EntityMatchFactory.language setter
EntityMatchSetLanguage(f, args, value) ==
    IF value # None
    THEN LET f1 == [f EXCEPT !.language = value]
         IN  [f |-> f1, args |-> SetKey(args, "language_code", f1.language)]
    ELSE [f |-> f, args |-> args]

\* BuiltinEntityMatchFactory.language setter
BuiltinEntityMatchSetLanguage(f, args, value) ==
    IF value # None
    THEN LET f1 == [f EXCEPT !.language = value]
         IN  [f |-> f1, args |-> SetKey(args, "language_code", f1.language)]
    ELSE [f |-> f, args |-> args]

\* the result of a constructor: the instance and the (shared) args mapping,
\* or the exception raised
Built(r) == [raised |-> None, f |-> r.f, args |-> r.args]

Raised(exc, args) == [raised |-> exc, f |-> NoFactory, args |-> args]

\* the six language-independent kinds : CRFFeatureFactory.__init__ only
BaseInit(name, cfg) == Built([f |-> [cls |-> name], args |-> Args(cfg)])

\* NgramFactory.__init__ that rejects only n < 0
NgramInitAllowsZero(cfg) ==
    LET args == Args(cfg)
        n == args["n"]
    IN  IF n < 0
        THEN Raised("ValueError: n should be >= 1", args)
        ELSE Built(NgramSetLanguage(
                 [cls |-> "ngram", n |-> n,
                  use_stemming |-> args["use_stemming"],
                  common_words_gazetteer_name |-> args["common_words_gazetteer_name"],
                  gazetteer |-> None,
                  language |-> None],
                 args, Get(args, "language_code")))

\* NgramFactory.__init__
NgramInit(cfg) ==
    LET args == Args(cfg)
        n == args["n"]
    IN  IF n < 1
        THEN Raised("ValueError: n should be >= 1", args)
        ELSE Built(NgramSetLanguage(
                 [cls |-> "ngram", n |-> n,
                  use_stemming |-> args["use_stemming"],
                  common_words_gazetteer_name |-> args["common_words_gazetteer_name"],
                  gazetteer |-> None,
                  language |-> None],
                 args, Get(args, "language_code")))

\* ShapeNgramFactory.__init__
ShapeNgramInit(cfg) ==
    LET args == Args(cfg)
        n == args["n"]
    IN  IF n < 1
        THEN Raised("ValueError: n should be >= 1", args)
        ELSE Built(ShapeNgramSetLanguage(
                 [cls |-> "shape_ngram", n |-> n, language |-> None],
                 args, Get(args, "language_code")))

\* WordClusterFactory.__init__
WordClusterInit(cfg) ==
    LET args == Args(cfg)
        r == WordClusterSetLanguage(
                 [cls |-> "word_cluster", cluster_name |-> args["cluster_name"],
                  cluster |-> None, language |-> None],
                 args, Get(args, "language_code"))
    IN  Built([f |-> [x \in (DOMAIN r.f) \cup {"use_stemming"} |->
                         IF x = "use_stemming" THEN args["use_stemming"] ELSE r.f[x]],
               args |-> r.args])

\* EntityMatchFactory.__init__
EntityMatchInit(cfg) ==
    LET args == Args(cfg)
    IN  Built(EntityMatchSetLanguage(
            [cls |-> "entity_match", use_stemming |-> args["use_stemming"],
             tagging_scheme |-> TaggingScheme(args["tagging_scheme_code"]),
             language |-> None],
            args, Get(args, "language_code")))

\* BuiltinEntityMatchFactory.__init__
BuiltinEntityMatchInit(cfg) ==
    LET args == Args(cfg)
    IN  Built(BuiltinEntityMatchSetLanguage(
            [cls |-> "builtin_entity_match",
             tagging_scheme |-> TaggingScheme(args["tagging_scheme_code"]),
             builtin_entities |-> Get(args, "entity_labels"),
             language |-> None],
            args, Get(args, "language_code")))

\* factory(factory_config) for the class whose name is `name`
Construct(name, cfg) ==
    CASE name = "ngram" -> NgramInit(cfg)
      [] name = "shape_ngram" -> ShapeNgramInit(cfg)
      [] name = "word_cluster" -> WordClusterInit(cfg)
      [] name = "entity_match" -> EntityMatchInit(cfg)
      [] name = "builtin_entity_match" -> BuiltinEntityMatchInit(cfg)
      [] OTHER -> BaseInit(name, cfg)

\* the loop of get_feature_factory : the first class of FACTORIES whose name
\* is factory_name, 0 when the loop ends without a match
RECURSIVE Lookup(_, _)
Lookup(factory_name, i) ==
    IF i > Len(FACTORIES) THEN 0
    ELSE IF factory_name = FACTORIES[i] THEN i
    ELSE Lookup(factory_name, i + 1)

\* get_feature_factory whose loop skips the first class of FACTORIES
get_feature_factory_skips_first(cfg) ==
    LET i == Lookup(cfg.factory_name, 2)
    IN  IF i # 0
        THEN Construct(FACTORIES[i], cfg)
        ELSE Raised("ValueError: Unknown feature factory", Args(cfg))

\* get_feature_factory(factory_config)
get_feature_factory(cfg) ==
    LET i == Lookup(cfg.factory_name, 1)
    IN  IF i # 0
        THEN Construct(FACTORIES[i], cfg)
        ELSE Raised("ValueError: Unknown feature factory", Args(cfg))

(* -------------------------------- fit ----------------------------------- *)

\* the result of fit : what it returns ("self" or None), or the exception
Fitted(r, ret) == [raised |-> None, ret |-> ret, f |-> r.f, args |-> r.args]

\* BuiltinEntityMatchFactory._get_builtin_entity_scope(dataset, intent)
GetBuiltinEntityScope(dataset, intent) ==
    LET language == dataset.language
        grammar_entities == GetSupportedGrammarEntities(language)
        gazetteer_entities == GetDatasetGazetteerEntities(dataset, intent)
    IN  grammar_entities \o gazetteer_entities

\* CRFFeatureFactory.fit : return self
BaseFit(f, args, dataset, intent) == Fitted([f |-> f, args |-> args], "self")

\* NgramFactory.fit : the setter, and no return statement
NgramFit(f, args, dataset, intent) ==
    Fitted(NgramSetLanguage(f, args, dataset.language), None)

\* ShapeNgramFactory.fit
ShapeNgramFit(f, args, dataset, intent) ==
    Fitted(ShapeNgramSetLanguage(f, args, dataset.language), None)

\* WordClusterFactory.fit
WordClusterFit(f, args, dataset, intent) ==
    Fitted(WordClusterSetLanguage(f, args, dataset.language), None)

\* EntityMatchFactory.fit : the setter, then return self
EntityMatchFit(f, args, dataset, intent) ==
    Fitted(EntityMatchSetLanguage(f, args, dataset.language), "self")

\* BuiltinEntityMatchFactory.fit that keeps the resolved scope on the instance
\* and does not write it to args
BuiltinEntityMatchFitScopeNotSaved(f, args, dataset, intent, ontology_raises) ==
    LET r == BuiltinEntityMatchSetLanguage(f, args, dataset.language)
        scope == GetBuiltinEntityScope(dataset, intent)
    IN  IF ontology_raises
        THEN [raised |-> "ontology error", ret |-> None, f |-> r.f, args |-> r.args]
        ELSE [raised |-> None, ret |-> None,
              f |-> [r.f EXCEPT !.builtin_entities = scope], args |-> r.args]

\* BuiltinEntityMatchFactory.fit.  ontology_raises: the ontology library is
\* handed a null language and raises (what it does with a null language is
\* outside this file); the setter has run by then, the two assignments have not.
BuiltinEntityMatchFit(f, args, dataset, intent, ontology_raises) ==
    LET r == BuiltinEntityMatchSetLanguage(f, args, dataset.language)
        scope == GetBuiltinEntityScope(dataset, intent)
    IN  IF ontology_raises
        THEN [raised |-> "ontology error", ret |-> None, f |-> r.f, args |-> r.args]
        ELSE Fitted([f |-> [r.f EXCEPT !.builtin_entities = scope],
                     args |-> SetKey(r.args, "entity_labels", scope)], None)

\* factory.fit(dataset, intent), dispatched on the class
Fit(f, args, dataset, intent, ontology_raises) ==
    CASE f.cls = "ngram" -> NgramFit(f, args, dataset, intent)
      [] f.cls = "shape_ngram" -> ShapeNgramFit(f, args, dataset, intent)
      [] f.cls = "word_cluster" -> WordClusterFit(f, args, dataset, intent)
      [] f.cls = "entity_match" -> EntityMatchFit(f, args, dataset, intent)
      [] f.cls = "builtin_entity_match" ->
             BuiltinEntityMatchFit(f, args, dataset, intent, ontology_raises)
      [] OTHER -> BaseFit(f, args, dataset, intent)

(* --------------------------- build_features ---------------------------- *)

\* slot_filler.feature.Feature(base_name, func, offset, drop_out)
Feature(base_name, func, offset, drop_out) ==
    [base_name |-> base_name, func |-> func, offset |-> offset, drop_out |-> drop_out]

\* SingleFeatureFactory.feature_name and its overrides
FeatureName(f, cfg) ==
    CASE f.cls = "prefix" -> "prefix_" \o ToString(Args(cfg)["prefix_size"])
      [] f.cls = "suffix" -> "suffix_" \o ToString(Args(cfg)["suffix_size"])
      [] f.cls = "ngram" -> "ngram_" \o ToString(f.n)
      [] f.cls = "shape_ngram" -> "shape_ngram_" \o ToString(f.n)
      [] f.cls = "word_cluster" -> "word_cluster_" \o f.cluster_name
      [] OTHER -> cfg.factory_name

\* SingleFeatureFactory.build_features that falls back to offset 0 when the
\* configuration lists no offset
SingleBuildFeaturesDefaultOffset(f, cfg) ==
    LET offsets == IF Offsets(cfg) = <<>> THEN <<0>> ELSE Offsets(cfg)
    IN  [raised |-> None,
         features |-> [i \in 1..Len(offsets) |->
                          Feature(FeatureName(f, cfg), "compute_feature",
                                  offsets[i], DropOut(cfg))]]

\* SingleFeatureFactory.build_features : one Feature per offset
SingleBuildFeatures(f, cfg) ==
    [raised |-> None,
     features |-> [i \in 1..Len(Offsets(cfg)) |->
                      Feature(FeatureName(f, cfg), "compute_feature",
                              Offsets(cfg)[i], DropOut(cfg))]]

\* the nested loops of the two entity kinds : for each label, for each offset,
\* a Feature whose function is the closure built for that label
LabelFeatures(prefix, labels, cfg) ==
    LET no == Len(Offsets(cfg))
    IN  [k \in 1..(Len(labels) * no) |->
            LET label == labels[((k - 1) \div no) + 1]
                offset == Offsets(cfg)[((k - 1) % no) + 1]
            IN  Feature(prefix \o label, "closure(" \o label \o ")", offset,
                        DropOut(cfg))]

\* EntityMatchFactory.build_features
EntityMatchBuildFeatures(f, cfg, custom_entities) ==
    [raised |-> None,
     features |-> LabelFeatures("entity_match_", custom_entities, cfg)]

\* BuiltinEntityMatchFactory.build_features : iterating None is a TypeError
BuiltinEntityMatchBuildFeatures(f, cfg) ==
    IF f.builtin_entities = None
    THEN [raised |-> "TypeError: 'NoneType' object is not iterable", features |-> <<>>]
    ELSE [raised |-> None,
          features |-> LabelFeatures("builtin_entity_match_", f.builtin_entities, cfg)]

\* factory.build_features(builtin_entity_parser, custom_entity_parser);
\* custom_entities is custom_entity_parser.entities in iteration order
BuildFeatures(f, cfg, custom_entities) ==
    CASE f.cls = "entity_match" -> EntityMatchBuildFeatures(f, cfg, custom_entities)
      [] f.cls = "builtin_entity_match" -> BuiltinEntityMatchBuildFeatures(f, cfg)
      [] OTHER -> SingleBuildFeatures(f, cfg)

(* -------------------------- feature evaluation ------------------------- *)

\* preprocessing.Token(value, start, end)
Token(value, start, end) == [value |-> value, start |-> start, end |-> end]

\* preprocessing.normalize_token(token)
NormalizeToken(t) ==
    CASE t.value = "Paris" -> "paris"
      [] t.value = "Flights" -> "flights"
      [] OTHER -> t.value

\* preprocessing.stem_token(token, language)
StemToken(t, language) ==
    CASE NormalizeToken(t) = "flights" -> "flight"
      [] OTHER -> NormalizeToken(t)

\* snips_nlu_utils.get_shape(value)
GetShape(value) ==
    CASE value = "Paris" -> "Xxx"
      [] value = "Flights" -> "Xxx"
      [] OTHER -> "xxx"

\* languages.get_default_sep(language)
GetDefaultSep(language) == " "

\* what a collaborator answers when it is handed a null language : outside
\* this file; neither None nor an index error
NullLanguage == "<null language>"

\* Python's seq[a:b] on a list, negative positions counted from the end
PySlice(seq, a, b) ==
    LET len == Len(seq)
        clip(i) == IF i < 0 THEN (IF i + len < 0 THEN 0 ELSE i + len)
                   ELSE (IF i > len THEN len ELSE i)
    IN  SubSeq(seq, clip(a) + 1, clip(b))

\* sep.join(words)
RECURSIVE Join(_, _)
Join(sep, words) ==
    IF Len(words) = 0 THEN ""
    ELSE IF Len(words) = 1 THEN words[1]
    ELSE words[1] \o sep \o Join(sep, Tail(words))

\* NgramFactory.compute_feature that joins the raw values of the tokens
NgramComputeFeatureRaw(f, tokens, token_index) ==
    LET max_len == Len(tokens)
        end == token_index + f.n
        window == PySlice(tokens, token_index, end)
    IN  IF 0 <= token_index /\ token_index < max_len /\ end <= max_len
        THEN IF f.language = None THEN NullLanguage
             ELSE LET words == [i \in DOMAIN window |->
                                   IF f.gazetteer = None
                                      \/ InGazetteer(window[i].value, f.gazetteer)
                                   THEN window[i].value ELSE "rare_word"]
                  IN  Join(GetDefaultSep(f.language), words)
        ELSE None

\* NgramFactory.compute_feature(tokens, token_index)
NgramComputeFeature(f, tokens, token_index) ==
    LET max_len == Len(tokens)
        end == token_index + f.n
        window == PySlice(tokens, token_index, end)
    IN  IF 0 <= token_index /\ token_index < max_len /\ end <= max_len
        THEN IF f.language = None THEN NullLanguage
             ELSE IF f.gazetteer = None
             THEN IF f.use_stemming
                  THEN Join(GetDefaultSep(f.language),
                            [i \in DOMAIN window |-> StemToken(window[i], f.language)])
                  ELSE Join(GetDefaultSep(f.language),
                            [i \in DOMAIN window |-> NormalizeToken(window[i])])
             ELSE LET value(t) == IF f.use_stemming THEN StemToken(t, f.language)
                                  ELSE NormalizeToken(t)
                      words == [i \in DOMAIN window |->
                                   IF InGazetteer(value(window[i]), f.gazetteer)
                                   THEN value(window[i]) ELSE "rare_word"]
                  IN  Join(GetDefaultSep(f.language), words)
        ELSE None

\* ShapeNgramFactory.compute_feature without the test 0 <= token_index
ShapeNgramComputeFeatureNoLowerBound(f, tokens, token_index) ==
    LET max_len == Len(tokens)
        end == token_index + f.n
        window == PySlice(tokens, token_index, end)
    IN  IF token_index < max_len /\ end <= max_len
        THEN IF f.language = None THEN NullLanguage
             ELSE Join(GetDefaultSep(f.language),
                       [i \in DOMAIN window |-> GetShape(window[i].value)])
        ELSE None

\* ShapeNgramFactory.compute_feature(tokens, token_index)
ShapeNgramComputeFeature(f, tokens, token_index) ==
    LET max_len == Len(tokens)
        end == token_index + f.n
        window == PySlice(tokens, token_index, end)
    IN  IF 0 <= token_index /\ token_index < max_len /\ end <= max_len
        THEN IF f.language = None THEN NullLanguage
             ELSE Join(GetDefaultSep(f.language),
                       [i \in DOMAIN window |-> GetShape(window[i].value)])
        ELSE None

\* compute_feature of the two n-gram kinds, dispatched on the class
ComputeFeature(f, tokens, token_index) ==
    IF f.cls = "ngram" THEN NgramComputeFeature(f, tokens, token_index)
    ELSE ShapeNgramComputeFeature(f, tokens, token_index)

(* ----------------------- entity-match evaluation ----------------------- *)

\* features_utils.entity_filter(entity, start, end) : the token range lies
\* inside the entity's range
EntityFilter(ent, start, end) ==
    ent.start <= start /\ start < end /\ end <= ent.end

\* crf_utils.get_scheme_prefix(index, indexes, tagging_scheme)
GetSchemePrefix(index, indexes, tagging_scheme) ==
    CASE tagging_scheme = "IO" -> "I-"
      [] tagging_scheme = "BIO" ->
             IF index = indexes[1] THEN "B-" ELSE "I-"
      [] OTHER ->
             IF Len(indexes) = 1 THEN "U-"
             ELSE IF index = indexes[1] THEN "B-"
             ELSE IF index = indexes[Len(indexes)] THEN "L-"
             ELSE "I-"

\* EntityMatchFactory._transform(token)
Transform(f, token) ==
    LET transformed_value == IF f.use_stemming THEN StemToken(token, f.language)
                             ELSE NormalizeToken(token)
    IN  Token(transformed_value, token.start, token.start + Len(transformed_value))

\* the indexes enumerate(tokens) yields : 0-based, in increasing order
Enumerate(tokens) == [i \in DOMAIN tokens |-> i - 1]

\* a loop that runs to its end and returns what its last iteration computed
LastEntity(entities) == entities[Len(entities)]

\* the entity a `for ent in entities: ... return ...` loop works on : the
\* loop returns in its first iteration (entities is not empty)
LoopEntity(entities) == entities[1]

\* the closure entity_match(tokens, token_index) of
\* EntityMatchFactory._build_entity_match_fn; parsed is what
\* custom_entity_parser.parse(text, scope=[entity], use_cache=True) answers
EntityMatchFn(f, tokens, token_index, parsed) ==
    IF f.use_stemming /\ f.language = None THEN NullLanguage
    ELSE
    LET transformed_tokens == [i \in DOMAIN tokens |-> Transform(f, tokens[i])]
        token_start == transformed_tokens[token_index + 1].start
        token_end == transformed_tokens[token_index + 1].end
        custom_entities ==
            SelectSeq(parsed, LAMBDA ent : EntityFilter(ent, token_start, token_end))
        result(ent) ==
            LET indexes == SelectSeq(Enumerate(transformed_tokens),
                               LAMBDA index :
                                   EntityFilter(ent, transformed_tokens[index + 1].start,
                                                transformed_tokens[index + 1].end))
            IN  GetSchemePrefix(token_index, indexes, f.tagging_scheme)
    IN  IF Len(custom_entities) = 0 THEN None
        ELSE result(LoopEntity(custom_entities))

\* the closure builtin_entity_match(tokens, token_index) of
\* BuiltinEntityMatchFactory._build_entity_match_fn; parsed is what
\* builtin_entity_parser.parse(text, scope=[builtin_entity], use_cache=True) answers
BuiltinEntityMatchFn(f, tokens, token_index, parsed) ==
    LET start == tokens[token_index + 1].start
        end == tokens[token_index + 1].end
        builtin_entities ==
            SelectSeq(parsed, LAMBDA ent : EntityFilter(ent, start, end))
        result(ent) ==
            LET entity_start == ent.start
                entity_end == ent.end
                indexes == SelectSeq(Enumerate(tokens),
                               LAMBDA index :
                                   LET token == tokens[index + 1]
                                   IN  /\ entity_start <= token.start
                                       /\ token.start < entity_end
                                       /\ entity_start < token.end
                                       /\ token.end <= entity_end)
            IN  GetSchemePrefix(token_index, indexes, f.tagging_scheme)
    IN  IF Len(builtin_entities) = 0 THEN None
        ELSE result(LoopEntity(builtin_entities))

\* the feature function of the two entity kinds, dispatched on the class
EntityMatch(f, tokens, token_index, parsed) ==
    IF f.cls = "entity_match" THEN EntityMatchFn(f, tokens, token_index, parsed)
    ELSE BuiltinEntityMatchFn(f, tokens, token_index, parsed)

(* ------------------------------ inputs --------------------------------- *)

OffsetChoices == {<<>>, <<0>>, <<-1, 1>>}

LanguageCodes(base) ==
    {base} \cup {[x \in (DOMAIN base) \cup {"language_code"} |->
                    IF x = "language_code" THEN l ELSE base[x]] : l \in Languages}

\* the args mappings a configuration of each kind is given
ArgsOf(name) ==
    CASE name \in {"prefix"} -> {[prefix_size |-> 2]}
      [] name \in {"suffix"} -> {[suffix_size |-> 2]}
      [] name = "ngram" ->
             UNION {LanguageCodes([n |-> n, use_stemming |-> s,
                                   common_words_gazetteer_name |-> g]) :
                       <<n, s, g>> \in (-1..MaxN) \X BOOLEAN \X {None, "top_10000_words"}}
      [] name = "shape_ngram" ->
             UNION {LanguageCodes([n |-> n]) : n \in -1..MaxN}
      [] name = "word_cluster" ->
             UNION {LanguageCodes([cluster_name |-> "brown_clusters", use_stemming |-> s]) :
                       s \in BOOLEAN}
      [] name = "entity_match" ->
             UNION {LanguageCodes([use_stemming |-> s, tagging_scheme_code |-> c]) :
                       <<s, c>> \in BOOLEAN \X (0..2)}
      [] name = "builtin_entity_match" ->
             UNION {LanguageCodes(a) : a \in
                       {[tagging_scheme_code |-> c] : c \in 0..2} \cup
                       {[tagging_scheme_code |-> c, entity_labels |-> e] :
                           <<c, e>> \in (0..2) \X {<<>>, <<"snips/number">>}}}
      [] OTHER -> {<<>>}

\* the factory_name values tried : the eleven kinds and some that are none
Names == FactoryNames \cup {"Ngram", "unknown"}

Configs ==
    UNION {{[factory_name |-> name, args |-> a, offsets |-> o] :
               <<a, o>> \in ArgsOf(name) \X OffsetChoices} : name \in Names}
    \cup {[factory_name |-> "is_first", args |-> <<>>, offsets |-> <<0>>, drop_out |-> 25],
          [factory_name |-> "ngram",
           args |-> [n |-> 1, use_stemming |-> FALSE, common_words_gazetteer_name |-> None],
           offsets |-> <<-1, 1>>, drop_out |-> 25]}

Intents == {"book_flight", "play_music"}

\* a dataset : its language and what get_dataset_gazetteer_entities finds per intent
Datasets ==
    {[language |-> l,
      gazetteer_entities |-> [i \in Intents |->
          IF i = "play_music" THEN <<"snips/musicArtist">> ELSE <<>>]] :
        l \in Languages \cup {None}}

\* custom_entity_parser.entities, in iteration order
CustomParserEntities == {<<>>, <<"city">>, <<"city", "artist">>}

(* ------------------------------ actions -------------------------------- *)

NoInput == [tokens |-> <<>>]

\* nothing is constructed yet
Start ==
    /\ config = NoConfig
    /\ factory = NoFactory
    /\ pre = [config |-> NoConfig, factory |-> NoFactory]
    /\ last = [op |-> "init"]
    /\ fitted = FALSE
    /\ second = [f |-> NoFactory, current |-> FALSE]

Init == Start /\ input = NoInput

\* the caller hands one of the configuration mappings of S to
\* get_feature_factory (a behaviour follows one configuration and its factory)
GetFeatureFactoryFrom(S) ==
    /\ config = NoConfig
    /\ \E cfg \in S :
        LET r == get_feature_factory(cfg)
        IN  /\ config' = [cfg EXCEPT !.args = r.args]
            /\ factory' = r.f
            /\ pre' = [config |-> cfg, factory |-> NoFactory]
            /\ last' = [op |-> "get_feature_factory", raised |-> r.raised]
            /\ UNCHANGED <<fitted, input, second>>

GetFeatureFactory == GetFeatureFactoryFrom(Configs)

\* the caller fits the factory
FitFactory ==
    /\ factory # NoFactory
    /\ \E dataset \in Datasets, intent \in Intents, ontology_raises \in BOOLEAN :
        /\ ontology_raises =>
               (factory.cls = "builtin_entity_match" /\ dataset.language = None)
        /\ LET r == Fit(factory, Args(config), dataset, intent, ontology_raises)
           IN  /\ config' = [config EXCEPT !.args = r.args]
               /\ factory' = r.f
               /\ pre' = [config |-> config, factory |-> factory]
               /\ last' = [op |-> "fit", raised |-> r.raised, ret |-> r.ret,
                           language |-> dataset.language]
               /\ fitted' = TRUE
               /\ second' = [second EXCEPT !.current = FALSE]
               /\ UNCHANGED input

\* the caller asks the factory for its features
BuildFeaturesOfFactory ==
    /\ factory # NoFactory
    /\ \E custom_entities \in CustomParserEntities :
        LET r == BuildFeatures(factory, config, custom_entities)
        IN  /\ last' = [op |-> "build_features", raised |-> r.raised,
                        features |-> r.features, custom_entities |-> custom_entities]
            /\ pre' = [config |-> config, factory |-> factory]
            /\ UNCHANGED <<config, factory, fitted, input, second>>

Next ==
    \/ GetFeatureFactory
    \/ FitFactory
    \/ BuildFeaturesOfFactory

\* the life of one factory : construction, fit, build_features
Spec == Init /\ [][Next]_vars

(* -------------------- evaluation of the n-gram kinds ------------------- *)

Vocabulary == {"Paris", "in", "Flights"}

\* the tokens of a sentence whose words are separated by one space
RECURSIVE Tokenize(_, _)
Tokenize(words, start) ==
    IF Len(words) = 0 THEN <<>>
    ELSE <<Token(words[1], start, start + Len(words[1]))>>
         \o Tokenize(Tail(words), start + Len(words[1]) + 1)

\* every sentence of at most MaxTokens words, and every index from two
\* before its first token to one past its end
ComputeInputs ==
    {[tokens |-> Tokenize(words, 0), token_index |-> i] :
        <<words, i>> \in (UNION {[1..k -> Vocabulary] : k \in 0..MaxTokens})
                         \X (-2..(MaxTokens + 1))}

InitCompute == Start /\ input \in ComputeInputs

NgramConfigs ==
    {cfg \in Configs : /\ cfg.factory_name \in {"ngram", "shape_ngram"}
                       /\ cfg.offsets = <<0>>}

GetNgramFactory == GetFeatureFactoryFrom(NgramConfigs)

\* compute_feature is called on the token sequence
ComputeFeatureOfFactory ==
    /\ factory # NoFactory
    /\ factory.cls \in {"ngram", "shape_ngram"}
    /\ last' = [op |-> "compute_feature",
                value |-> ComputeFeature(factory, input.tokens, input.token_index)]
    /\ pre' = [config |-> config, factory |-> factory]
    /\ UNCHANGED <<config, factory, fitted, input, second>>

NextCompute ==
    \/ GetNgramFactory
    \/ FitFactory
    \/ ComputeFeatureOfFactory

SpecCompute == InitCompute /\ [][NextCompute]_vars

(* ------------------- evaluation of the entity kinds -------------------- *)

EntitySentences ==
    { <<"Flights">>, <<"Flights", "in">>, <<"in", "Flights">>,
      <<"Flights", "in", "Paris">> }

\* the character ranges a parser may answer with on these tokens : from the
\* start of a token to the end of a token, as written, normalized or stemmed
Spans(tokens) ==
    LET ends(t) == {t.end, t.start + Len(NormalizeToken(t)),
                    t.start + Len(StemToken(t, "en"))}
    IN  {[start |-> tokens[i].start, end |-> e] :
            <<i, e>> \in {p \in (DOMAIN tokens) \X (0..30) :
                            /\ \E j \in DOMAIN tokens : p[2] \in ends(tokens[j])
                            /\ tokens[p[1]].start < p[2]}}

\* a sentence, the index of one of its tokens, and the ordered answer of the
\* parser : at most MaxEntities ranges
EntityInputs ==
    UNION {LET tokens == Tokenize(words, 0)
           IN  {[tokens |-> tokens, token_index |-> i, parsed |-> parsed] :
                   <<i, parsed>> \in (0..(Len(tokens) - 1))
                       \X (UNION {[1..k -> Spans(tokens)] : k \in 0..MaxEntities})} :
           words \in EntitySentences}

InitEntity == Start /\ input \in EntityInputs

EntityConfigs ==
    {cfg \in Configs : /\ cfg.factory_name \in {"entity_match", "builtin_entity_match"}
                       /\ cfg.offsets = <<0>>
                       /\ DOMAIN cfg.args \subseteq {"use_stemming", "tagging_scheme_code"}}

GetEntityFactory == GetFeatureFactoryFrom(EntityConfigs)

\* a feature built by the factory is evaluated on the target token
EvaluateEntityMatch ==
    /\ factory # NoFactory
    /\ factory.cls \in {"entity_match", "builtin_entity_match"}
    /\ last' = [op |-> "entity_match",
                value |-> EntityMatch(factory, input.tokens, input.token_index,
                                      input.parsed)]
    /\ pre' = [config |-> config, factory |-> factory]
    /\ UNCHANGED <<config, factory, fitted, input, second>>

NextEntity ==
    \/ GetEntityFactory
    \/ FitFactory
    \/ EvaluateEntityMatch

SpecEntity == InitEntity /\ [][NextEntity]_vars

(* -------------- a second factory on the same configuration ------------- *)

\* the caller constructs another factory from the configuration mapping the
\* first one was built on (and, when fitted, wrote to); `second` keeps the new
\* instance and, as history, whether the first factory has not been fitted
\* again since (fit clears it)
ConstructSecond ==
    /\ factory # NoFactory
    /\ LET r == get_feature_factory(config)
       IN  /\ config' = [config EXCEPT !.args = r.args]
           /\ second' = [f |-> r.f, current |-> TRUE]
           /\ pre' = [config |-> config, factory |-> factory]
           /\ last' = [op |-> "construct_second", raised |-> r.raised]
           /\ UNCHANGED <<factory, fitted, input>>

\* the caller asks both factories for their features, with the same parsers
BuildFeaturesOfBoth ==
    /\ factory # NoFactory
    /\ second.f # NoFactory
    /\ \E custom_entities \in CustomParserEntities :
        /\ last' = [op |-> "build_features_both",
                    first |-> BuildFeatures(factory, config, custom_entities),
                    second |-> BuildFeatures(second.f, config, custom_entities)]
        /\ pre' = [config |-> config, factory |-> factory]
        /\ UNCHANGED <<config, factory, fitted, input, second>>

NextRoundTrip ==
    \/ GetFeatureFactory
    \/ FitFactory
    \/ ConstructSecond
    \/ BuildFeaturesOfBoth

SpecRoundTrip == Init /\ [][NextRoundTrip]_vars

(* ======================= properties of the factories =================== *)

UnknownFactory == "ValueError: Unknown feature factory"

InvalidN == "ValueError: n should be >= 1"

\* C1 : fit(dataset, intent) returns the factory it was called on, for every
\* one of the eleven kinds.
C1_FitReturnsSelf ==
    (last.op = "fit" /\ last.raised = None) => last.ret = "self"

\* C2 : build_features on a language-dependent factory that was built from a
\* configuration without language_code and never fitted fails with an error;
\* it never returns a list of features.
C2_UnboundBuildFeaturesFails ==
    ( /\ last.op = "build_features"
      /\ factory.cls \in LanguageDependent
      /\ ~fitted
      /\ factory.language = None )
    => last.raised # None

\* C3 : get_feature_factory returns a factory of the kind of FACTORIES whose
\* name is the configuration's factory_name, built on that configuration (the
\* only way a known kind yields no factory is its own constructor rejecting
\* its n); a factory_name that is none of the eleven names gives the
\* "Unknown feature factory" error and no factory.
C3_Registry ==
    last.op = "get_feature_factory" =>
        LET name == pre.config.factory_name
        IN  IF name \in FactoryNames
            THEN /\ last.raised # UnknownFactory
                 /\ last.raised = None =>
                        /\ factory.cls = name
                        /\ config.factory_name = name
                        /\ config.offsets = pre.config.offsets
                        /\ \A k \in DOMAIN pre.config.args :
                               config.args[k] = pre.config.args[k]
                 /\ last.raised # None =>
                        /\ name \in {"ngram", "shape_ngram"}
                        /\ pre.config.args["n"] < 1
                        /\ factory = NoFactory
            ELSE /\ last.raised = UnknownFactory
                 /\ factory = NoFactory
                 /\ config = pre.config

C3_Witness ==
    /\ last.op = "get_feature_factory"
    /\ pre.config.factory_name = "builtin_entity_match"
    /\ factory.cls = "builtin_entity_match"

\* C4 : an n-gram or shape-n-gram configuration with n < 1 is rejected by the
\* constructor with the validation error, no factory exists and the args of
\* the configuration are as the caller gave them; with n >= 1 the factory is
\* constructed.
C4_NValidated ==
    ( /\ last.op = "get_feature_factory"
      /\ pre.config.factory_name \in {"ngram", "shape_ngram"} )
    => IF pre.config.args["n"] < 1
       THEN /\ last.raised = InvalidN
            /\ factory = NoFactory
            /\ config = pre.config
       ELSE /\ last.raised = None
            /\ factory.cls = pre.config.factory_name
            /\ factory.n = pre.config.args["n"]

C4_Witness ==
    /\ last.op = "get_feature_factory"
    /\ pre.config.factory_name = "ngram"
    /\ pre.config.args["n"] = 0
    /\ "language_code" \in DOMAIN pre.config.args
    /\ last.raised = InvalidN

C6_WindowBounds ==
    last.op = "compute_feature" =>
        LET len == Len(input.tokens)
            token_index == input.token_index
            n == factory.n
        IN  /\ n >= 1
            /\ (token_index < 0 \/ token_index >= len \/ token_index + n > len)
                   => last.value = None
            /\ (0 <= token_index /\ token_index + n <= len)
                   => last.value # None

C6_Witness ==
    /\ last.op = "compute_feature"
    /\ factory.cls = "shape_ngram"
    /\ factory.n = 2
    /\ input.token_index = 0
    /\ Len(input.tokens) = 2
    /\ last.value = "Xxx xxx"

\* C7 as stated : the configuration mapping of the caller (factory_name,
\* offsets, drop_out, every key and value of args) is the same after fit as
\* before it.
C7_FitLeavesConfig ==
    last.op = "fit" => config = pre.config

\* the keys of args a fit call assigns
FitWrites ==
    IF factory.cls \in LanguageDependent
    THEN (IF last.language # None THEN {"language_code"} ELSE {})
         \cup (IF factory.cls = "builtin_entity_match" /\ last.raised = None
               THEN {"entity_labels"} ELSE {})
    ELSE {}

\* C7, amended : fit leaves factory_name, offsets, drop_out and every key of
\* args it does not assign as they were.  It assigns args["language_code"]
\* (the dataset's language, when that is not null, on the five
\* language-dependent kinds) and args["entity_labels"] (the resolved scope, on
\* builtin-entity-match); on the six other kinds the mapping is unchanged.
C7_FitWritesOnlyBinding ==
    last.op = "fit" =>
        /\ DOMAIN config = DOMAIN pre.config
        /\ \A k \in (DOMAIN config) \ {"args"} : config[k] = pre.config[k]
        /\ DOMAIN config.args = (DOMAIN pre.config.args) \cup FitWrites
        /\ \A k \in (DOMAIN pre.config.args) \ FitWrites :
               config.args[k] = pre.config.args[k]
        /\ "language_code" \in FitWrites => config.args["language_code"] = last.language
        /\ "entity_labels" \in FitWrites =>
               config.args["entity_labels"] = factory.builtin_entities

C7_Witness ==
    /\ last.op = "fit"
    /\ factory.cls = "builtin_entity_match"
    /\ DOMAIN pre.config.args = {"tagging_scheme_code"}
    /\ DOMAIN config.args = {"tagging_scheme_code", "language_code", "entity_labels"}
    /\ config.args["entity_labels"] = <<"snips/number", "snips/musicArtist">>

\* C8 as stated : n-gram with n = 1 and use_stemming = false, at an in-range
\* index after fit, returns the normalized value of the token, whether the
\* common-words gazetteer name is set or not.
C8_UnigramIsNormalized ==
    ( /\ last.op = "compute_feature"
      /\ factory.cls = "ngram"
      /\ factory.n = 1
      /\ ~factory.use_stemming
      /\ fitted
      /\ factory.language # None
      /\ 0 <= input.token_index
      /\ input.token_index < Len(input.tokens) )
    => last.value = NormalizeToken(input.tokens[input.token_index + 1])

\* C8, amended : it returns the normalized value of the token when the factory
\* has no gazetteer or the normalized value is in the gazetteer, and
\* "rare_word" when the gazetteer does not contain the normalized value.
C8_UnigramIsNormalizedOrRare ==
    ( /\ last.op = "compute_feature"
      /\ factory.cls = "ngram"
      /\ factory.n = 1
      /\ ~factory.use_stemming
      /\ fitted
      /\ factory.language # None
      /\ 0 <= input.token_index
      /\ input.token_index < Len(input.tokens) )
    => LET normalized == NormalizeToken(input.tokens[input.token_index + 1])
       IN  last.value =
               IF factory.gazetteer = None \/ InGazetteer(normalized, factory.gazetteer)
               THEN normalized ELSE "rare_word"

C8_Witness ==
    /\ last.op = "compute_feature"
    /\ factory.cls = "ngram"
    /\ factory.n = 1
    /\ ~factory.use_stemming
    /\ fitted
    /\ factory.gazetteer = "fr/top_10000_words"
    /\ input.token_index = 1
    /\ Len(input.tokens) = 2
    /\ input.tokens[2].value = "Paris"
    /\ last.value = "paris"

\* the tokens the entity-match function of the factory compares with the
\* parser's ranges : transformed for the custom kind, as given for the builtin
SeenTokens ==
    IF factory.cls = "entity_match"
    THEN [i \in DOMAIN input.tokens |-> Transform(factory, input.tokens[i])]
    ELSE input.tokens

\* the 0-based indexes of the tokens an entity covers
CoveredBy(ent) ==
    {i - 1 : i \in {j \in DOMAIN SeenTokens :
                       /\ ent.start <= SeenTokens[j].start
                       /\ SeenTokens[j].start < SeenTokens[j].end
                       /\ SeenTokens[j].end <= ent.end}}

\* a set of indexes in increasing order
RECURSIVE Ascending(_)
Ascending(S) ==
    IF S = {} THEN <<>>
    ELSE LET m == CHOOSE x \in S : \A y \in S : x <= y
         IN  <<m>> \o Ascending(S \ {m})

\* the positions in the parser's answer of the entities that pass the overlap
\* filter for the target token
Passing ==
    LET target == SeenTokens[input.token_index + 1]
    IN  {i \in DOMAIN input.parsed :
            EntityFilter(input.parsed[i], target.start, target.end)}

\* C9 : when no entity of the parser's scoped answer passes the overlap filter
\* for the target token the value is None; otherwise it is the scheme prefix
\* computed from the token indexes covered by the first passing entity, and the
\* entities after it have no influence.
C9_FirstMatch ==
    (last.op = "entity_match" /\ last.value # NullLanguage) =>
        IF Passing = {} THEN last.value = None
        ELSE LET first == CHOOSE i \in Passing : \A j \in Passing : i <= j
             IN  /\ last.value = GetSchemePrefix(input.token_index,
                                     Ascending(CoveredBy(input.parsed[first])),
                                     factory.tagging_scheme)
                 /\ last.value = EntityMatch(factory, input.tokens, input.token_index,
                                             SubSeq(input.parsed, 1, first))

C9_Witness ==
    /\ last.op = "entity_match"
    /\ factory.cls = "entity_match"
    /\ factory.use_stemming
    /\ factory.tagging_scheme = "BILOU"
    /\ Len(input.parsed) = 2
    /\ Passing = {1, 2}
    /\ last.value = "B-"
    /\ EntityMatch(factory, input.tokens, input.token_index, <<input.parsed[2]>>) = "U-"

NamesAndOffsets(features) ==
    [i \in DOMAIN features |-> <<features[i].base_name, features[i].offset>>]

\* equality of two entity-label scopes, each a sequence of labels or None
SameLabels(a, b) ==
    IF a = None THEN b = None ELSE IF b = None THEN FALSE ELSE a = b

\* C11 : a second factory constructed, without fit, from the configuration
\* mapping of a fitted factory has the kind and the bound language of the
\* fitted one and, for builtin-entity-match, the same entity labels in the
\* same order; until the first factory is fitted again, build_features
\* gives on both the same outcome : features with the same names and offsets
\* in the same order.
C11_ConfigRoundTrip ==
    (fitted /\ second.f # NoFactory /\ second.current) =>
        /\ second.f.cls = factory.cls
        /\ factory.cls \in LanguageDependent =>
               second.f.language = factory.language
        /\ factory.cls = "builtin_entity_match" =>
               SameLabels(second.f.builtin_entities, factory.builtin_entities)
        /\ last.op = "build_features_both" =>
               /\ last.second.raised = last.first.raised
               /\ NamesAndOffsets(last.second.features)
                      = NamesAndOffsets(last.first.features)

C11_Witness ==
    /\ fitted
    /\ last.op = "build_features_both"
    /\ second.current
    /\ factory.cls = "builtin_entity_match"
    /\ second.f.language = "fr"
    /\ second.f.builtin_entities # None
    /\ second.f.builtin_entities = <<"snips/number", "snips/date", "snips/musicArtist">>
    /\ Len(last.second.features) = 6
    /\ last.second.features[6].base_name = "builtin_entity_match_snips/musicArtist"
    /\ last.second.features[6].offset = 1

====
